---- MODULE Spec2Model ----
(***************************************************************************)
(* Model of quick_scan_autonomy.py: the ground-station message callback    *)
(* (xbee_callback), the spiral planner (generateWaypoints), the mission    *)
(* upload (quick_scan_adds_mission) and the supervisor thread              *)
(* (quick_scan_autonomy), run against a vehicle that walks its command     *)
(* list.                                                                   *)
(*                                                                         *)
(* Numbers: angles are integers in milliradians, lengths are integers in   *)
(* metres.  The real quotient maxTheta = radius / b is never formed: the   *)
(* loop test theta <= radius / b is decided exactly by cross               *)
(* multiplication.                                                         *)
(***************************************************************************)
EXTENDS Integers, Sequences, FiniteSets, TLC

\* ------------------------------------------------------------------ bounds
\* number of inbound messages delivered in one run
MaxMsgs == 3
\* cap on the number of spiral points one planner call may append (the loop
\* of generateWaypoints has no cap of its own)
MaxSpiral == 6
\* largest outer radius, in metres, the planner is tried on alone
MaxRad2 == 5

\* --------------------------------------------------------- program constants
\* b / altitude in units of 1e-4: b = 0.75 * (2 * altitude / tan(fovH / 2))
\* / (2 * pi) with fovH = 62.2 degrees gives b = 0.39575 * altitude
CoilPerAltE4 == 3958
\* pi / 8 in milliradians: the step the comment at the increment names
PiOver8 == 393

\* ------------------------------------------------------------ JSON messages
\* A decoded payload.  payload = "other" is well-formed JSON that is not an
\* object (an array, a number, ...).  A field is absent, a string, a number
\* or an object; searchArea.has is the set of keys the nested object holds.
Keys == {"center", "rad1", "rad2"}

AbsentField == [kind |-> "absent", val |-> ""]
StrField(s) == [kind |-> "string", val |-> s]
NumField == [kind |-> "number", val |-> "7"]

\* the search areas a ground station sends; two families that differ in
\* every field, so that a value mixed from two messages is none of them
Areas ==
    {[center |-> <<0, 0>>, rad1 |-> 1, rad2 |-> r] : r \in {-2, 3}}
        \cup {[center |-> <<1, 2>>, rad1 |-> 2, rad2 |-> r] : r \in {0, 5}}

NoKeys == [kind |-> "absent", has |-> {}, center |-> <<0, 0>>, rad1 |-> 1, rad2 |-> 3]
AreaField(a, has) ==
    [kind |-> "object", has |-> has, center |-> a.center, rad1 |-> a.rad1,
     rad2 |-> a.rad2]
NonObjectArea == [NoKeys EXCEPT !.kind = "number"]

SomeArea == CHOOSE a \in Areas : a.rad2 = 3

Messages ==
    \* not an object at all
    {[payload |-> "other", type |-> AbsentField, sa |-> NoKeys]}
    \* no type, a type that is not a string, an unknown type
        \cup {[payload |-> "object", type |-> t, sa |-> NoKeys] :
                 t \in {AbsentField, NumField, StrField("bogus"), StrField("START")}}
    \* pause, resume, stop
        \cup {[payload |-> "object", type |-> StrField(t), sa |-> NoKeys] :
                 t \in {"pause", "resume", "stop"}}
    \* start without searchArea, with a searchArea that is not an object
        \cup {[payload |-> "object", type |-> StrField("start"), sa |-> s] :
                 s \in {NoKeys, NonObjectArea}}
    \* start with a searchArea that lacks some key
        \cup {[payload |-> "object", type |-> StrField("start"),
               sa |-> AreaField(SomeArea, h)] : h \in (SUBSET Keys) \ {Keys}}
    \* start with a whole searchArea
        \cup {[payload |-> "object", type |-> StrField("start"),
               sa |-> AreaField(a, Keys)] : a \in Areas}

NoMsg == [payload |-> "none", type |-> AbsentField, sa |-> NoKeys]

\* search_area = None
None == [center |-> <<>>, rad1 |-> 0, rad2 |-> 0]

VARIABLES
    \* configs: the dict the supervisor is given (and writes to)
    configs,
    \* autonomy.xbee: "none" when the comm layer is simulated
    xbee,
    \* autonomy.start_mission, pause_mission, stop_mission; search_area
    start_mission, pause_mission, stop_mission, search_area,
    \* the callback: position, message in hand, replies sent and exception
    \* raised by the invocation in hand, messages delivered so far
    cb_pc, msg, cb_out, cb_exc, n_msgs,
    \* the supervisor: position, planner locals, exception raised
    pc, gw_area, waypointsNED, waypointsLLA, theta, planned, sup_exc, joined,
    \* the vehicle: command list, uploaded list, executed index, mode, and
    \* the calls made on it
    cmds, uploaded, veh_next, veh_mode, veh_calls

intake_vars == <<cb_pc, msg, cb_out, cb_exc, n_msgs>>
shared_vars == <<start_mission, pause_mission, stop_mission, search_area>>
sup_vars ==
    <<pc, gw_area, waypointsNED, waypointsLLA, theta, planned, sup_exc, joined>>
veh_vars == <<cmds, uploaded, veh_next, veh_mode, veh_calls>>
vars == <<configs, xbee, shared_vars, intake_vars, sup_vars, veh_vars>>

\* ------------------------------------------------------------- the callback
\* class SearchArea
SearchArea(center, rad1, rad2) == [center |-> center, rad1 |-> rad1, rad2 |-> rad2]

\* acknowledge(address, msg_type) and bad_msg(address, problem): one reply each
acknowledge(msg_type) == [kind |-> "ack", text |-> msg_type]
bad_msg(problem) == [kind |-> "error", text |-> problem]

\* the reply, had the except clause named the enclosing object for every key
MissingKeyReplyOuter(key) == bad_msg("Missing 'searchArea' key")
\* the except clause: the reply for KeyError(key)
MissingKeyReply(key) == bad_msg("Missing '" \o key \o "' key")

\* the reply, had the else branch acknowledged like the others
UnknownTypeAck(msg_type) == acknowledge(msg_type)
\* line 62: bad_msg(address, "Unknown message type: '" + msg_type + "'")
UnknownTypeReply(msg_type) ==
    bad_msg("Unknown message type: '" \o msg_type \o "'")

\* the order of the statements of a branch: a start stores the area, sets the
\* flag, acknowledges; flag first is the order a slip would give
StepsFlagFirst(t) == IF t = "start" THEN <<"flag", "area", "ack">> ELSE <<"flag", "ack">>
Steps(t) == IF t = "start" THEN <<"area", "flag", "ack">> ELSE <<"flag", "ack">>

\* the statement after position p in the branch of type t
NextStep(t, p) ==
    LET s == Steps(t)
        i == CHOOSE k \in 1..Len(s) : s[k] = p
    IN  IF i = Len(s) THEN "return" ELSE s[i + 1]

\* the first key the SearchArea(...) argument list finds absent
FirstMissing(has) ==
    IF "center" \notin has THEN "center"
    ELSE IF "rad1" \notin has THEN "rad1" ELSE "rad2"

\* lines 36-43, 49, 53, 57, 61-66: decode, read msg["type"], pick the branch
xbee_callback(m) ==
    /\ pc # "init"
    /\ cb_pc = "idle"
    /\ n_msgs < MaxMsgs
    /\ n_msgs' = n_msgs + 1
    /\ msg' = m
    /\ IF m.payload # "object"
       THEN \* msg["type"] on a list, a number, a string: TypeError, not caught
            /\ cb_out' = <<>>
            /\ cb_exc' = "TypeError"
            /\ cb_pc' = "return"
       ELSE IF m.type.kind = "absent"
       THEN /\ cb_out' = <<MissingKeyReply("type")>>
            /\ cb_exc' = "none"
            /\ cb_pc' = "return"
       ELSE IF m.type.kind = "string"
                /\ m.type.val \in {"start", "pause", "resume", "stop"}
       THEN /\ cb_out' = <<>>
            /\ cb_exc' = "none"
            /\ cb_pc' = Steps(m.type.val)[1]
       ELSE IF m.type.kind = "string"
       THEN /\ cb_out' = <<UnknownTypeReply(m.type.val)>>
            /\ cb_exc' = "none"
            /\ cb_pc' = "return"
       ELSE \* str + int: TypeError, not caught
            /\ cb_out' = <<>>
            /\ cb_exc' = "TypeError"
            /\ cb_pc' = "return"
    /\ UNCHANGED <<configs, xbee, shared_vars, sup_vars, veh_vars>>

\* lines 44-45: area = msg["searchArea"]; search_area = SearchArea(...)
StoreArea ==
    /\ cb_pc = "area"
    /\ IF msg.sa.kind = "absent"
       THEN /\ cb_out' = Append(cb_out, MissingKeyReply("searchArea"))
            /\ cb_pc' = "return"
            /\ UNCHANGED <<cb_exc, search_area>>
       ELSE IF msg.sa.kind # "object"
       THEN \* subscripting a number: TypeError, not caught
            /\ cb_exc' = "TypeError"
            /\ cb_pc' = "return"
            /\ UNCHANGED <<cb_out, search_area>>
       ELSE IF msg.sa.has # Keys
       THEN /\ cb_out' = Append(cb_out, MissingKeyReply(FirstMissing(msg.sa.has)))
            /\ cb_pc' = "return"
            /\ UNCHANGED <<cb_exc, search_area>>
       ELSE /\ search_area' = SearchArea(msg.sa.center, msg.sa.rad1, msg.sa.rad2)
            /\ cb_pc' = NextStep("start", "area")
            /\ UNCHANGED <<cb_out, cb_exc>>
    /\ UNCHANGED <<configs, xbee, start_mission, pause_mission, stop_mission,
                   msg, n_msgs, sup_vars, veh_vars>>

\* the flags a resume leaves, had it been written to clear every flag
FlagsAfterClearing(t, f) ==
    IF t = "resume" THEN [start |-> FALSE, pause |-> FALSE, stop |-> FALSE]
    ELSE IF t = "start" THEN [f EXCEPT !.start = TRUE]
    ELSE IF t = "pause" THEN [f EXCEPT !.pause = TRUE]
    ELSE [f EXCEPT !.stop = TRUE]
\* the flags, had the resume branch left pause_mission alone
FlagsAfterResumeLost(t, f) ==
    IF t = "start" THEN [f EXCEPT !.start = TRUE]
    ELSE IF t = "pause" THEN [f EXCEPT !.pause = TRUE]
    ELSE IF t = "resume" THEN f
    ELSE [f EXCEPT !.stop = TRUE]
\* lines 46, 50, 54, 58: the flag assignment of the branch of type t
FlagsAfter(t, f) ==
    IF t = "start" THEN [f EXCEPT !.start = TRUE]
    ELSE IF t = "pause" THEN [f EXCEPT !.pause = TRUE]
    ELSE IF t = "resume" THEN [f EXCEPT !.pause = FALSE]
    ELSE [f EXCEPT !.stop = TRUE]

SetFlag ==
    /\ cb_pc = "flag"
    /\ LET f == FlagsAfter(msg.type.val,
                           [start |-> start_mission, pause |-> pause_mission,
                            stop |-> stop_mission])
       IN  /\ start_mission' = f.start
           /\ pause_mission' = f.pause
           /\ stop_mission' = f.stop
    /\ cb_pc' = NextStep(msg.type.val, "flag")
    /\ UNCHANGED <<configs, xbee, search_area, msg, cb_out, cb_exc, n_msgs,
                   sup_vars, veh_vars>>

\* lines 47, 51, 55, 59: acknowledge(address, msg_type)
Ack ==
    /\ cb_pc = "ack"
    /\ cb_out' = Append(cb_out, acknowledge(msg.type.val))
    /\ cb_pc' = NextStep(msg.type.val, "ack")
    /\ UNCHANGED <<configs, xbee, shared_vars, msg, cb_exc, n_msgs, sup_vars,
                   veh_vars>>

\* the callback returns (or its exception reaches the caller)
Return ==
    /\ cb_pc = "return"
    /\ cb_pc' = "idle"
    /\ UNCHANGED <<configs, xbee, shared_vars, msg, cb_out, cb_exc, n_msgs,
                   sup_vars, veh_vars>>

\* -------------------------------------------------------------- the planner
\* A position is kept as the term that yields it: the reference point
\* (lat, lon, alt) and the offset from it in the earth-fixed x-y plane, in
\* polar form (away in 1e-7 m, around in milliradians).  conv tells a
\* position a conversion returned from one that was given.
Given(lat, lon, alt) ==
    [lat |-> lat, lon |-> lon, alt |-> alt, away |-> 0, around |-> 0,
     conv |-> FALSE, frame |-> "LLA"]

\* ecef2ned(x, y, z, lat, lon, altitude) of the point at (away, around)
ecef2ned(away, around, lat, lon, alt) ==
    [lat |-> lat, lon |-> lon, alt |-> alt, away |-> away, around |-> around,
     conv |-> TRUE, frame |-> "NED"]
\* ned2geodetic(n, e, d, lat, lon, altitude)
ned2geodetic(ned) == [ned EXCEPT !.frame = "LLA"]

\* rotation = -(pi / 2), in milliradians
Rotation == -1571

\* away = b * theta, in 1e-7 m
Away(altitude, th) == altitude * CoilPerAltE4 * th

\* the loop test, had it been written theta < maxTheta
InSpiralStrict(th, radius, altitude) ==
    altitude * CoilPerAltE4 * th < radius * 10000000
\* line 98: theta <= maxTheta, with maxTheta = radius / b and b > 0
InSpiral(th, radius, altitude) ==
    altitude * CoilPerAltE4 * th <= radius * 10000000

\* the first theta, had the loop started one step in
FirstThetaSkipping(d_theta) == d_theta
\* line 97: theta = 0
FirstTheta(d_theta) == 0

\* the area the loop works on, had it read the global again
PlannedAreaGlobal == search_area
\* line 70: the search_area parameter, bound at the call of line 177
PlannedArea == gw_area

\* lines 177, 71-97: the call, the centre point, the loop set up
generateWaypoints ==
    /\ pc = "plan"
    /\ planned' = planned + 1
    /\ gw_area' = search_area
    /\ IF search_area = None
       THEN \* None.center: AttributeError
            /\ sup_exc' = "AttributeError"
            /\ pc' = "raised"
            /\ UNCHANGED <<waypointsNED, waypointsLLA, theta>>
       ELSE LET lat == search_area.center[1]
                lon == search_area.center[2]
                altitude == configs.altitude
            IN  /\ waypointsLLA' = <<Given(lat, lon, altitude)>>
                /\ waypointsNED' = <<ecef2ned(0, 0, lat, lon, altitude)>>
                /\ theta' = FirstTheta(configs.d_theta_rad)
                /\ pc' = "gw_loop"
                /\ UNCHANGED sup_exc
    /\ UNCHANGED <<configs, xbee, shared_vars, intake_vars, joined, veh_vars>>

\* lines 98-116: one iteration of the while loop
PlanLoop ==
    /\ pc = "gw_loop"
    /\ InSpiral(theta, PlannedArea.rad2, configs.altitude)
    /\ Len(waypointsLLA) - 1 < MaxSpiral
    /\ LET lat == PlannedArea.center[1]
           lon == PlannedArea.center[2]
           ned == ecef2ned(Away(configs.altitude, theta), theta + Rotation,
                           lat, lon, configs.altitude)
       IN  /\ waypointsNED' = Append(waypointsNED, ned)
           /\ waypointsLLA' = Append(waypointsLLA, ned2geodetic(ned))
    /\ theta' = theta + configs.d_theta_rad
    /\ UNCHANGED <<configs, xbee, shared_vars, intake_vars, pc, gw_area,
                   planned, sup_exc, joined, veh_vars>>

\* lines 98, 118, 178: the loop test fails, the two lists are returned
PlanReturn ==
    /\ pc = "gw_loop"
    /\ ~InSpiral(theta, PlannedArea.rad2, configs.altitude)
    /\ pc' = "connect"
    /\ UNCHANGED <<configs, xbee, shared_vars, intake_vars, gw_area,
                   waypointsNED, waypointsLLA, theta, planned, sup_exc, joined,
                   veh_vars>>

\* ----------------------------------------------------------- the supervisor
\* lines 160-170: the comm simulation thread is started, or the callback is
\* registered on the radio; from here on messages are delivered
quick_scan_autonomy ==
    /\ pc = "init"
    /\ pc' = "await"
    /\ UNCHANGED <<configs, xbee, shared_vars, intake_vars, gw_area,
                   waypointsNED, waypointsLLA, theta, planned, sup_exc, joined,
                   veh_vars>>

\* the test of the wait, had there been none
StartSeenAlways == TRUE
\* the test of the wait, had it ended on stop as well
StartSeenOrStop == start_mission \/ stop_mission
\* line 173: while not autonomy.start_mission
StartSeen == start_mission

\* lines 173-174: the wait for start_mission ends
AwaitStart ==
    /\ pc = "await"
    /\ StartSeen
    /\ pc' = "plan"
    /\ UNCHANGED <<configs, xbee, shared_vars, intake_vars, gw_area,
                   waypointsNED, waypointsLLA, theta, planned, sup_exc, joined,
                   veh_vars>>

\* Command(..., MAV_CMD_NAV_TAKEOFF, ..., 0, 0, 10)
TakeoffCommand == [cmd |-> "TAKEOFF", at |-> Given(0, 0, 0), z |-> 10]
\* Command(..., MAV_CMD_NAV_WAYPOINT, ..., point[0], point[1], 12): the
\* latitude and longitude of the point, not its altitude
WaypointCommand(point) ==
    [cmd |-> "WAYPOINT", at |-> [point EXCEPT !.alt = 0], z |-> 12]

\* the command list built from a list of geographic waypoints
MissionCommands(lla) ==
    <<TakeoffCommand>>
        \o [i \in 1..Len(lla) |-> WaypointCommand(lla[i])]
        \o <<WaypointCommand(lla[Len(lla)])>>

\* the list a vehicle holds when the supervisor connects
OldCommands == {<<>>, <<TakeoffCommand>>}

\* lines 181-190: connect(connection_string, wait_ready=True)
Connect ==
    /\ pc = "connect"
    /\ \E old \in OldCommands :
          /\ cmds' = old
          /\ uploaded' = old
    /\ veh_next' = 0
    /\ veh_mode' = "STABILIZE"
    /\ pc' = "mission"
    /\ UNCHANGED <<configs, xbee, shared_vars, intake_vars, gw_area,
                   waypointsNED, waypointsLLA, theta, planned, sup_exc, joined,
                   veh_calls>>

\* the list after a clear that removes nothing
cmds_kept(old) == old
\* line 132: cmds.clear()
cmds_clear(old) == <<>>

\* lines 193, 120-152: quick_scan_adds_mission(vehicle, waypoints[1])
quick_scan_adds_mission ==
    /\ pc = "mission"
    /\ cmds' = cmds_clear(cmds) \o MissionCommands(waypointsLLA)
    /\ uploaded' = cmds'
    /\ veh_calls' = veh_calls \o <<"clear">>
                        \o [i \in 1..(Len(waypointsLLA) + 2) |-> "add"]
                        \o <<"upload">>
    /\ pc' = "takeoff"
    /\ UNCHANGED <<configs, xbee, shared_vars, intake_vars, gw_area,
                   waypointsNED, waypointsLLA, theta, planned, sup_exc, joined,
                   veh_next, veh_mode>>

\* autonomy.takeoff and autonomy.land, as the calls they make on the vehicle
takeoff(calls) == Append(calls, "takeoff")
land(calls) == Append(calls, "land")

\* line 196: takeoff(configs["flight_mode"], vehicle, configs["altitude"])
Takeoff ==
    /\ pc = "takeoff"
    /\ veh_calls' = takeoff(veh_calls)
    /\ pc' = "setmode"
    /\ UNCHANGED <<configs, xbee, shared_vars, intake_vars, gw_area,
                   waypointsNED, waypointsLLA, theta, planned, sup_exc, joined,
                   cmds, uploaded, veh_next, veh_mode>>

\* line 198: vehicle.mode = VehicleMode(configs["flight_mode"])
SetMode ==
    /\ pc = "setmode"
    /\ veh_mode' = configs.flight_mode
    /\ veh_calls' = Append(veh_calls, "mode")
    /\ pc' = "modecheck"
    /\ UNCHANGED <<configs, xbee, shared_vars, intake_vars, gw_area,
                   waypointsNED, waypointsLLA, theta, planned, sup_exc, joined,
                   cmds, uploaded, veh_next>>

\* lines 201, 212-213: only AUTO is flown; anything else raises
ModeCheck ==
    /\ pc = "modecheck"
    /\ IF configs.flight_mode = "AUTO"
       THEN pc' = "loop_test" /\ UNCHANGED sup_exc
       ELSE pc' = "raised" /\ sup_exc' = "Exception"
    /\ UNCHANGED <<configs, xbee, shared_vars, intake_vars, gw_area,
                   waypointsNED, waypointsLLA, theta, planned, joined, veh_vars>>

\* line 202: while vehicle.commands.next != vehicle.commands.count
LoopTest ==
    /\ pc = "loop_test"
    /\ pc' = IF veh_next # Len(cmds) THEN "loop_pause" ELSE "land"
    /\ UNCHANGED <<configs, xbee, shared_vars, intake_vars, gw_area,
                   waypointsNED, waypointsLLA, theta, planned, sup_exc, joined,
                   veh_vars>>

\* lines 204-207: the pause flag picks the mode written to configs
LoopPause ==
    /\ pc = "loop_pause"
    /\ configs' = [configs EXCEPT
                      !.flight_mode = IF pause_mission THEN "HOVER" ELSE "AUTO"]
    /\ pc' = "loop_stop"
    /\ UNCHANGED <<xbee, shared_vars, intake_vars, gw_area, waypointsNED,
                   waypointsLLA, theta, planned, sup_exc, joined, veh_vars>>

\* the flag that ends the loop, had the break been hung on pause_mission
BreakFlagPause == pause_mission
\* line 208: if autonomy.stop_mission
BreakFlag == stop_mission

\* lines 208-211: break on stop, else print, sleep and test again
LoopStop ==
    /\ pc = "loop_stop"
    /\ pc' = IF BreakFlag THEN "land" ELSE "loop_test"
    /\ UNCHANGED <<configs, xbee, shared_vars, intake_vars, gw_area,
                   waypointsNED, waypointsLLA, theta, planned, sup_exc, joined,
                   veh_vars>>

\* line 215: land(vehicle)
Land ==
    /\ pc = "land"
    /\ veh_calls' = land(veh_calls)
    /\ veh_mode' = "LAND"
    /\ pc' = "join"
    /\ UNCHANGED <<configs, xbee, shared_vars, intake_vars, gw_area,
                   waypointsNED, waypointsLLA, theta, planned, sup_exc, joined,
                   cmds, uploaded, veh_next>>

\* the comm simulation thread has replayed its feed
FeedDone == cb_pc = "idle" /\ n_msgs = MaxMsgs

\* lines 218-219: if comm_sim: comm_sim.join(); the supervisor returns
Join ==
    /\ pc = "join"
    /\ xbee = "none" => FeedDone
    /\ joined' = (xbee = "none")
    /\ pc' = "done"
    /\ UNCHANGED <<configs, xbee, shared_vars, intake_vars, gw_area,
                   waypointsNED, waypointsLLA, theta, planned, sup_exc, veh_vars>>

\* -------------------------------------------------------------- the vehicle
\* in AUTO the vehicle works through the uploaded list, one command at a time
VehicleAdvance ==
    /\ veh_mode = "AUTO"
    /\ veh_next < Len(uploaded)
    /\ veh_next' = veh_next + 1
    /\ UNCHANGED <<configs, xbee, shared_vars, intake_vars, sup_vars, cmds,
                   uploaded, veh_mode, veh_calls>>

\* ------------------------------------------------------- the specifications
FlightModes == {"AUTO", "GUIDED"}

\* the globals of the autonomy module before any message
AutonomyGlobals ==
    /\ start_mission = FALSE
    /\ pause_mission = FALSE
    /\ stop_mission = FALSE

\* the state quick_scan_autonomy is entered in
Init ==
    /\ configs \in [altitude : {10}, d_theta_rad : {PiOver8},
                    flight_mode : FlightModes]
    /\ xbee \in {"none", "radio"}
    /\ AutonomyGlobals
    /\ search_area = None
    /\ cb_pc = "idle"
    /\ msg = NoMsg
    /\ cb_out = <<>>
    /\ cb_exc = "none"
    /\ n_msgs = 0
    /\ pc = "init"
    /\ gw_area = None
    /\ waypointsNED = <<>>
    /\ waypointsLLA = <<>>
    /\ theta = 0
    /\ planned = 0
    /\ sup_exc = "none"
    /\ joined = FALSE
    /\ cmds = <<>>
    /\ uploaded = <<>>
    /\ veh_next = 0
    /\ veh_mode = "NONE"
    /\ veh_calls = <<>>

Next ==
    \/ \E m \in Messages : xbee_callback(m)
    \/ StoreArea
    \/ SetFlag
    \/ Ack
    \/ Return
    \/ quick_scan_autonomy
    \/ AwaitStart
    \/ generateWaypoints
    \/ PlanLoop
    \/ PlanReturn
    \/ Connect
    \/ quick_scan_adds_mission
    \/ Takeoff
    \/ SetMode
    \/ ModeCheck
    \/ LoopTest
    \/ LoopPause
    \/ LoopStop
    \/ Land
    \/ Join
    \/ VehicleAdvance

Spec == Init /\ [][Next]_vars

\* the steps of the supervisor thread
Supervisor ==
    \/ quick_scan_autonomy
    \/ AwaitStart
    \/ generateWaypoints
    \/ PlanLoop
    \/ PlanReturn
    \/ Connect
    \/ quick_scan_adds_mission
    \/ Takeoff
    \/ SetMode
    \/ ModeCheck
    \/ LoopTest
    \/ LoopPause
    \/ LoopStop
    \/ Land
    \/ Join

\* the supervisor thread is scheduled as long as it can run; nothing is
\* asked of the ground station or of the vehicle
SpecFair == Init /\ [][Next]_vars /\ WF_vars(Supervisor)

\* The planner on its own: generateWaypoints entered with every configuration
\* and search area of the ranges below, the feed exhausted.
PlanAreas == {SearchArea(c, 1, r) : c \in {<<0, 0>>, <<1, 2>>}, r \in (-2)..MaxRad2}

InitPlan ==
    /\ configs \in [altitude : {10, 20},
                    d_theta_rad : {-PiOver8, 0, PiOver8, 2 * PiOver8},
                    flight_mode : {"AUTO"}]
    /\ xbee = "radio"
    /\ start_mission = TRUE
    /\ pause_mission = FALSE
    /\ stop_mission = FALSE
    /\ search_area \in PlanAreas
    /\ cb_pc = "idle"
    /\ msg = NoMsg
    /\ cb_out = <<>>
    /\ cb_exc = "none"
    /\ n_msgs = MaxMsgs
    /\ pc = "plan"
    /\ gw_area = None
    /\ waypointsNED = <<>>
    /\ waypointsLLA = <<>>
    /\ theta = 0
    /\ planned = 0
    /\ sup_exc = "none"
    /\ joined = FALSE
    /\ cmds = <<>>
    /\ uploaded = <<>>
    /\ veh_next = 0
    /\ veh_mode = "NONE"
    /\ veh_calls = <<>>

NextPlan ==
    \/ generateWaypoints
    \/ PlanLoop
    \/ PlanReturn

SpecPlan == InitPlan /\ [][NextPlan]_vars

\* ------------------------------------------------------------------ claims
\* generateWaypoints has returned its two lists
Returned == pc = "connect"
\* the centre of the planned area at mission altitude, as the planner is given it
CenterLLA == Given(gw_area.center[1], gw_area.center[2], configs.altitude)
\* the same place in the local-tangent list
CenterNED ==
    ecef2ned(0, 0, gw_area.center[1], gw_area.center[2], configs.altitude)

\* C8: with a non-positive angular step generateWaypoints fails fast: it
\* appends no spiral point and does not return a trajectory.
C8_FailsFast ==
    (planned > 0 /\ configs.d_theta_rad <= 0)
        => (Len(waypointsLLA) <= 1 /\ ~Returned)

FloorSteps(radius, altitude, d_theta) ==
    (radius * 10000000) \div (altitude * CoilPerAltE4 * d_theta)

\* C10: for rad2 > 0 and a positive angular step the returned trajectory has
\* floor(maxTheta / angularStep) + 2 waypoints, the first is the centre at
\* mission altitude, and the two lists are equally long.
C10_Length ==
    (Returned /\ gw_area.rad2 > 0 /\ configs.d_theta_rad > 0)
        => /\ Len(waypointsLLA)
                 = FloorSteps(gw_area.rad2, configs.altitude, configs.d_theta_rad) + 2
           /\ waypointsLLA[1] = CenterLLA
           /\ Len(waypointsNED) = Len(waypointsLLA)

C10_Witness ==
    /\ Returned
    /\ gw_area.rad2 > 0
    /\ configs.d_theta_rad > 0
    /\ Len(waypointsLLA) >= 5

\* ---- the callback
\* the required fields message m lacks: type; for a start, searchArea, or a
\* key of searchArea
Lacking(m) ==
    IF m.payload # "object" THEN {}
    ELSE IF m.type.kind = "absent" THEN {"type"}
    ELSE IF m.type # StrField("start") THEN {}
    ELSE IF m.sa.kind = "absent" THEN {"searchArea"}
    ELSE IF m.sa.kind = "object" THEN Keys \ m.sa.has
    ELSE {}

\* the callback is at its end with the message still in hand
AtReturn == cb_pc = "return"

\* C1: a message lacking a required field gets one error reply naming a
\* field it lacks, and no step taken while it is in hand changes the three
\* flags or the stored search area.
C1_MissingField ==
    /\ [](AtReturn /\ Lacking(msg) # {}
            => /\ cb_exc = "none"
               /\ \E k \in Lacking(msg) :
                     cb_out = <<[kind |-> "error",
                                 text |-> "Missing '" \o k \o "' key"]>>)
    /\ [][(Lacking(msg') # {} /\ (cb_pc # "idle" \/ cb_pc' # "idle"))
            => UNCHANGED shared_vars]_vars

\* a start whose searchArea lacks rad2 has been answered, after an earlier
\* start had set the flag and stored an area
C1_Witness ==
    /\ AtReturn
    /\ msg.type = StrField("start")
    /\ msg.sa.kind = "object"
    /\ msg.sa.has = {"center", "rad1"}
    /\ start_mission
    /\ search_area \in Areas
    /\ Len(cb_out) = 1

\* C2: every well-formed JSON message gets exactly one reply and nothing
\* escapes the callback.
C2_ExactlyOneReply == AtReturn => (Len(cb_out) = 1 /\ cb_exc = "none")

\* the area a start message carries
AreaOf(m) == [center |-> m.sa.center, rad1 |-> m.sa.rad1, rad2 |-> m.sa.rad2]
IsStart(m) == m.payload = "object" /\ m.type = StrField("start")

\* C3: a whole start message stores its three values, then sets the flag,
\* then acknowledges; start_mission implies a stored area that is one
\* message's area, and the planner is only ever given such an area.
C3_AreaBeforeFlag ==
    /\ [](start_mission => search_area \in Areas)
    /\ [](planned > 0 => gw_area \in Areas)
    /\ [][search_area' # search_area
            => /\ cb_pc = "area"
               /\ msg.sa.has = Keys
               /\ search_area' = AreaOf(msg)
               /\ cb_out = <<>>]_vars
    /\ [][(cb_pc = "flag" /\ cb_pc' # "flag" /\ IsStart(msg))
            => /\ search_area = AreaOf(msg)
               /\ start_mission'
               /\ cb_out = <<>>]_vars
    /\ [][(cb_out' # cb_out /\ cb_pc = "ack" /\ IsStart(msg))
            => /\ search_area = AreaOf(msg)
               /\ start_mission
               /\ cb_out' = <<[kind |-> "ack", text |-> "start"]>>]_vars

\* a second start is about to be acknowledged while the planner works on the
\* area of the first
C3_Witness ==
    /\ cb_pc = "ack"
    /\ IsStart(msg)
    /\ start_mission
    /\ pc = "gw_loop"
    /\ gw_area \in Areas
    /\ search_area \in Areas
    /\ search_area # gw_area

\* C4: no step resets stop_mission or start_mission once it is true.
C4_FlagsStick ==
    [][(stop_mission => stop_mission') /\ (start_mission => start_mission')]_vars

\* start, stop and resume have been processed and both flags still stand
C4_Witness ==
    /\ AtReturn
    /\ msg.type = StrField("resume")
    /\ Len(cb_out) = 1
    /\ start_mission
    /\ stop_mission
    /\ n_msgs = 3

\* ---- the supervisor
Count(x, seq) == Cardinality({i \in DOMAIN seq : seq[i] = x})

\* C5: the monitor loop is left at the test exactly when the executed index
\* equals the command count, and at the stop check exactly when stop_mission
\* is true; land is called once, after the loop and not before.
C5_LoopExit ==
    /\ [][pc = "loop_test" /\ pc' # pc
            => (pc' = "land") = (veh_next = Len(cmds))]_vars
    /\ [][pc = "loop_stop" /\ pc' # pc
            => (pc' = "land") = stop_mission]_vars
    /\ [][pc' = "land" /\ pc # "land"
            => pc \in {"loop_test", "loop_stop"}]_vars
    /\ [](Count("land", veh_calls) = IF pc \in {"join", "done"} THEN 1 ELSE 0)
    /\ [](pc \in {"loop_test", "loop_pause", "loop_stop", "land"}
            => Len(cmds) = Len(waypointsLLA) + 2)

\* the loop was left on stop with commands still to run, and land was called
C5_Witness ==
    /\ pc = "join"
    /\ stop_mission
    /\ veh_next > 0
    /\ veh_next < Len(cmds)
    /\ Count("land", veh_calls) = 1

\* C6: each pass of the monitor loop puts the vehicle in the hover mode when
\* pause_mission is true and in the autonomous mode otherwise.
C6_HoverOnPause ==
    [][pc = "loop_pause" /\ pc' = "loop_stop"
         => veh_mode' = IF pause_mission THEN "HOVER" ELSE "AUTO"]_vars

\* C7: with a flight mode other than AUTO configured, no vehicle command is
\* ever issued.
C7_FailsBeforeUpload == configs.flight_mode = "GUIDED" => veh_calls = <<>>

\* ---- the mission upload
\* quick_scan_adds_mission has run
MissionBuilt == veh_calls # <<>>
\* the place a command flies to is the latitude and longitude of waypoint w
FliesTo(c, w) ==
    /\ c.cmd = "WAYPOINT"
    /\ c.at.lat = w.lat
    /\ c.at.lon = w.lon
    /\ c.at.away = w.away
    /\ c.at.around = w.around

Finished == pc \in {"done", "raised"}

\* C12: with a simulated comm layer, the comm simulation thread has been
\* joined whenever quick_scan_autonomy has finished, by return or by raise.
C12_JoinedOnEveryPath == (xbee = "none" /\ Finished) => joined

\* C13: there is no finished state in which takeoff was commanded and land
\* was not.
C13_LandAfterTakeoff ==
    (Finished /\ Count("takeoff", veh_calls) > 0)
        => Count("land", veh_calls) > 0

\* ---- stop
InLoop == pc \in {"loop_test", "loop_pause", "loop_stop"}
Landed == Count("land", veh_calls) = 1

\* C14: once stop_mission is true with the supervisor in its monitor loop,
\* the supervisor goes on to command landing, whatever pause_mission is and
\* whether or not the vehicle ever reaches the end of its list; and a pass
\* that sees stop_mission at the stop check begins no further pass.
C14_StopLands ==
    /\ (stop_mission /\ InLoop) ~> Landed
    /\ [][(pc = "loop_stop" /\ stop_mission /\ pc' # pc) => pc' = "land"]_vars

\* landing was commanded on stop, with pause_mission true and the vehicle
\* still at its first command
C14_Witness ==
    /\ Landed
    /\ stop_mission
    /\ pause_mission
    /\ veh_next = 0
    /\ Len(cmds) > 0

\* ---- the order of the supervisor's work
\* the calls a whole run makes on the vehicle, for a trajectory of L waypoints
AllCalls(L) ==
    <<"clear">> \o [i \in 1..(L + 2) |-> "add"]
        \o <<"upload", "takeoff", "mode", "land">>
IsPrefix(s, t) == Len(s) <= Len(t) /\ \A i \in 1..Len(s) : s[i] = t[i]

\* C15: nothing is planned and no vehicle command is issued while
\* start_mission is false; the planner is called once, before the upload;
\* the vehicle calls come in the order clear, adds, upload, takeoff, mode,
\* land; the monitor loop runs between the mode assignment and land.
C15_Order ==
    /\ ~start_mission
          => (planned = 0 /\ veh_calls = <<>> /\ pc \in {"init", "await"})
    /\ planned <= 1
    /\ MissionBuilt
          => /\ planned = 1
             /\ Len(waypointsLLA) >= 1
             /\ IsPrefix(veh_calls, AllCalls(Len(waypointsLLA)))
    /\ InLoop => Len(veh_calls) = Len(waypointsLLA) + 6
    /\ pc \in {"join", "done"} => veh_calls = AllCalls(Len(waypointsLLA))

\* a whole run, with a pause received on the way
C15_Witness ==
    /\ pc = "done"
    /\ planned = 1
    /\ pause_mission
    /\ ~stop_mission
    /\ veh_calls = AllCalls(Len(waypointsLLA))

\* ---- pause, resume and unknown types
IsPauseOrResume(m) ==
    m.payload = "object" /\ m.type \in {StrField("pause"), StrField("resume")}

\* C16: pause_mission is false before any message and is changed only by the
\* flag assignment of a pause (to true) or of a resume (to false), so it tells
\* which of the two was processed last; each of them is acknowledged once and
\* changes neither start_mission, stop_mission nor the stored area.
C16_PauseFollowsLast ==
    /\ [](n_msgs = 0 => ~pause_mission)
    /\ [][pause_mission' # pause_mission
            => /\ cb_pc = "flag"
               /\ IsPauseOrResume(msg)
               /\ pause_mission' = (msg.type.val = "pause")]_vars
    /\ [](AtReturn /\ IsPauseOrResume(msg)
            => /\ pause_mission = (msg.type.val = "pause")
               /\ cb_out = <<[kind |-> "ack", text |-> msg.type.val]>>
               /\ cb_exc = "none")
    /\ [][(IsPauseOrResume(msg') /\ (cb_pc # "idle" \/ cb_pc' # "idle"))
            => UNCHANGED <<start_mission, stop_mission, search_area>>]_vars

\* a resume has been answered as the third message, pause_mission is false
\* and the mission is started
C16_Witness ==
    /\ AtReturn
    /\ msg.type = StrField("resume")
    /\ ~pause_mission
    /\ start_mission
    /\ search_area \in Areas
    /\ n_msgs = 3
    /\ Len(cb_out) = 1

IsUnknown(m) ==
    /\ m.payload = "object"
    /\ m.type.kind = "string"
    /\ m.type.val \notin {"start", "pause", "resume", "stop"}

\* C17: a message whose type is a string other than start, pause, resume and
\* stop gets one error reply that quotes the type, no acknowledgment, and no
\* step taken while it is in hand changes the flags or the stored area.
C17_UnknownType ==
    /\ [](AtReturn /\ IsUnknown(msg)
            => /\ cb_out = <<[kind |-> "error",
                              text |-> "Unknown message type: '"
                                          \o msg.type.val \o "'"]>>
               /\ cb_exc = "none")
    /\ [][(IsUnknown(msg') /\ (cb_pc # "idle" \/ cb_pc' # "idle"))
            => UNCHANGED shared_vars]_vars

\* an unknown type has been answered with the mission started and paused
C17_Witness ==
    /\ AtReturn
    /\ msg.type = StrField("START")
    /\ Len(cb_out) = 1
    /\ start_mission
    /\ pause_mission

\* ---- stop before start
\* C18: stop_mission does not end the wait for start: while start_mission is
\* false the supervisor stays before the planner and nothing is commanded,
\* and the wait is left only with start_mission true; once started in AUTO
\* with stop_mission already true, the supervisor still uploads and takes
\* off, begins no second pass of the monitor loop, and lands.
C18_StopSeenInLoopOnly ==
    /\ []((stop_mission /\ ~start_mission)
            => (pc \in {"init", "await"} /\ veh_calls = <<>>))
    /\ [][(pc = "await" /\ pc' # pc) => (start_mission /\ pc' = "plan")]_vars
    /\ [][(pc = "loop_stop" /\ pc' = "loop_test") => ~stop_mission]_vars
    /\ [](Landed => veh_calls = AllCalls(Len(waypointsLLA)))
    /\ (stop_mission /\ start_mission /\ pc = "await"
           /\ configs.flight_mode = "AUTO") ~> Landed

\* stop, then start, were the two messages; the supervisor took off and
\* landed with the vehicle still at its first command
C18_Witness ==
    /\ n_msgs = 2
    /\ cb_pc = "idle"
    /\ IsStart(msg)
    /\ stop_mission
    /\ start_mission
    /\ Landed
    /\ Count("takeoff", veh_calls) = 1
    /\ veh_next = 0

\* ---- the planner's input
\* the number of waypoints the planner returns for an area
TrajectoryLength(area, altitude, d_theta) ==
    IF area.rad2 < 0 THEN 1
    ELSE FloorSteps(area.rad2, altitude, d_theta) + 2
\* the planner has returned
Planned == planned = 1 /\ pc \notin {"plan", "gw_loop", "raised"}

\* C19: the planner is called once, on the area stored at that moment; the
\* trajectory is the one of that area; a later start is acknowledged and
\* replaces the stored area, and changes neither the area planned, the
\* trajectory, the command list, the uploaded list nor the number of calls.
C19_PlannedOnce ==
    /\ [](planned <= 1)
    /\ [][planned' # planned
            => /\ pc = "plan"
               /\ planned' = planned + 1
               /\ gw_area' = search_area]_vars
    /\ [][gw_area' # gw_area => planned' # planned]_vars
    /\ [](Planned
            => /\ Len(waypointsLLA)
                    = TrajectoryLength(gw_area, configs.altitude,
                                       configs.d_theta_rad)
               /\ Len(waypointsNED) = Len(waypointsLLA)
               /\ \A i \in 1..Len(waypointsLLA) :
                     /\ waypointsLLA[i].lat = gw_area.center[1]
                     /\ waypointsLLA[i].lon = gw_area.center[2])
    /\ [][(planned = 1 /\ search_area' # search_area)
            => UNCHANGED <<gw_area, waypointsNED, waypointsLLA, theta, planned,
                           cmds, uploaded>>]_vars
    /\ [][MissionBuilt => UNCHANGED <<waypointsLLA, cmds, uploaded>>]_vars
    /\ [](AtReturn /\ IsStart(msg) /\ msg.sa.kind = "object" /\ msg.sa.has = Keys
            => /\ cb_out = <<[kind |-> "ack", text |-> "start"]>>
               /\ search_area = AreaOf(msg))

\* a start processed after the planner's call has been acknowledged: the
\* stored area is its area, the mission uploaded is that of the earlier one
C19_Witness ==
    /\ pc = "takeoff"
    /\ planned = 1
    /\ AtReturn
    /\ IsStart(msg)
    /\ cb_out = <<[kind |-> "ack", text |-> "start"]>>
    /\ search_area = AreaOf(msg)
    /\ search_area # gw_area
    /\ Len(waypointsLLA) = 5

====
